---- MODULE Spec2Model ----
(***************************************************************************)
(* Window manager state engine of the desktop environment                  *)
(* (WindowManagerProvider): the window collection, the top z-index counter *)
(* and the eight operations published through the context.  Every          *)
(* operation is modelled as the state updater(s) it hands to React,        *)
(* applied in call order.                                                  *)
(***************************************************************************)
EXTENDS Integers, Sequences, FiniteSets, TLC

VARIABLES
  windows,    \* the committed window collection (useState #1)
  topZIndex,  \* the committed counter (useState #2)
  last,       \* the operation called last, with its arguments
  telemetry,  \* the telemetry-sink calls made by the last step
  sink,       \* "ok" or "throws": whether a telemetry-sink call returns
  thrown,     \* whether the last operation's updater raised an exception
  queue,      \* React's pending updates of the two hooks (batched dispatch)
  inOrder,    \* reference: the calls so far applied one at a time
  chat        \* the chat endpoint's request and what it built from it

vars == <<windows, topZIndex, last, telemetry, sink, thrown, queue, inOrder, chat>>

engineVars == <<windows, topZIndex, last, telemetry, sink, thrown>>

reactVars == <<queue, inOrder>>

(* ------------------------------ bounds --------------------------------- *)

\* Seed of the counter: useState(100).
BaseZ == 100

\* Number of counter increments explored (the counter itself is unbounded).
MaxBumps == 3

Ids == {"a", "b"}

Titles == {"Notes", "Files"}

\* (x, y) pairs passed to updateWindowPosition.
PosArgs == {<<0, 0>>, <<10, 20>>}

\* (width, height) pairs passed to updateWindowSize; one pair is non-positive.
SizeArgs == {<<400, 300>>, <<0, -5>>}

\* Omit<WindowState, 'zIndex' | 'isFocused'>: every field but those two,
\* isMinimized and isMaximized included.
WindowInits ==
  [id : Ids, title : Titles, x : {0}, y : {0}, width : {400}, height : {300},
   isMinimized : BOOLEAN, isMaximized : BOOLEAN]

(* ------------------------------ helpers -------------------------------- *)

\* prev.find(w => w.id === id) is not undefined
Has(prev, id) == \E i \in 1..Len(prev) : prev[i].id = id

\* prev.find(w => w.id === id): the first match (only used when Has holds)
Find(prev, id) ==
  prev[CHOOSE i \in 1..Len(prev) :
         /\ prev[i].id = id
         /\ \A j \in 1..(i - 1) : prev[j].id # id]

\* { ...window, zIndex: newZ, isFocused: true }
NewWindow(window, newZ) ==
  [id |-> window.id, title |-> window.title, x |-> window.x, y |-> window.y,
   width |-> window.width, height |-> window.height,
   isMinimized |-> window.isMinimized, isMaximized |-> window.isMaximized,
   zIndex |-> newZ, isFocused |-> TRUE]

\* prev.filter(w => w.id !== id)
FilterOut(prev, id) == SelectSeq(prev, LAMBDA w : w.id # id)

\* one telemetry-sink call
Ev(api, name, id, value) ==
  [sink |-> api, name |-> name, id |-> id, value |-> value]

(* ------------------- updaters handed to setWindows --------------------- *)

\* variant: the restore branch without isMinimized: false
openExistingStaysMinimized(prev, window, newZ) ==
  [i \in 1..Len(prev) |->
     IF prev[i].id = window.id
       THEN [prev[i] EXCEPT !.isFocused = TRUE, !.zIndex = newZ]
       ELSE [prev[i] EXCEPT !.isFocused = FALSE]]

openExistingMinimized(prev, window, newZ) ==
  [i \in 1..Len(prev) |->
     IF prev[i].id = window.id
       THEN [prev[i] EXCEPT !.isMinimized = FALSE, !.isFocused = TRUE,
                            !.zIndex = newZ]
       ELSE [prev[i] EXCEPT !.isFocused = FALSE]]

\* variant: the refocus branch without zIndex: newZ
openExistingKeepsZ(prev, window, newZ) ==
  [i \in 1..Len(prev) |->
     IF prev[i].id = window.id
       THEN [prev[i] EXCEPT !.isFocused = TRUE]
       ELSE [prev[i] EXCEPT !.isFocused = FALSE]]

\* variant: the refocus branch spreading the argument over the stored record
openExistingOverwrites(prev, window, newZ) ==
  [i \in 1..Len(prev) |->
     IF prev[i].id = window.id
       THEN NewWindow(window, newZ)
       ELSE [prev[i] EXCEPT !.isFocused = FALSE]]

openExistingVisible(prev, window, newZ) ==
  [i \in 1..Len(prev) |->
     IF prev[i].id = window.id
       THEN [prev[i] EXCEPT !.isFocused = TRUE, !.zIndex = newZ]
       ELSE [prev[i] EXCEPT !.isFocused = FALSE]]

\* variant: the new window is stacked by the number of open windows
openNewRanksByCount(prev, window, newZ) ==
  [i \in 1..Len(prev) |-> [prev[i] EXCEPT !.isFocused = FALSE]]
    \o <<NewWindow(window, BaseZ + Len(prev) + 1)>>

openNew(prev, window, newZ) ==
  [i \in 1..Len(prev) |-> [prev[i] EXCEPT !.isFocused = FALSE]]
    \o <<NewWindow(window, newZ)>>

\* variant: no lookup of an existing window, every open appends
openAlwaysAppends(prev, window, newZ) ==
  [i \in 1..Len(prev) |-> [prev[i] EXCEPT !.isFocused = FALSE]]
    \o <<NewWindow(window, newZ)>>

openWindowUpdater(prev, window, newZ) ==
  IF Has(prev, window.id)
    THEN IF Find(prev, window.id).isMinimized
           THEN openExistingMinimized(prev, window, newZ)
           ELSE openExistingVisible(prev, window, newZ)
    ELSE openNew(prev, window, newZ)

\* variant: the filter predicate inverted
closeKeepsOnlyTarget(prev, id) == SelectSeq(prev, LAMBDA w : w.id = id)

closeWindowUpdater(prev, id) == FilterOut(prev, id)

minimizeWindowUpdater(prev, id) ==
  [i \in 1..Len(prev) |->
     IF prev[i].id = id
       THEN [prev[i] EXCEPT !.isMinimized = TRUE, !.isFocused = FALSE]
       ELSE prev[i]]

\* variant: isMaximized is set instead of inverted
maximizeSetsTrue(prev, id) ==
  [i \in 1..Len(prev) |->
     IF prev[i].id = id
       THEN [prev[i] EXCEPT !.isMaximized = TRUE]
       ELSE prev[i]]

maximizeWindowUpdater(prev, id) ==
  [i \in 1..Len(prev) |->
     IF prev[i].id = id
       THEN [prev[i] EXCEPT !.isMaximized = ~prev[i].isMaximized]
       ELSE prev[i]]

restoreWindowUpdater(prev, id, newZ) ==
  [i \in 1..Len(prev) |->
     IF prev[i].id = id
       THEN [prev[i] EXCEPT !.isMinimized = FALSE, !.isFocused = TRUE,
                            !.zIndex = newZ]
       ELSE [prev[i] EXCEPT !.isFocused = FALSE]]

\* variant: focus written as restore (isMinimized cleared)
focusClearsMinimized(prev, id, newZ) ==
  [i \in 1..Len(prev) |->
     IF prev[i].id = id
       THEN [prev[i] EXCEPT !.isMinimized = FALSE, !.isFocused = TRUE,
                            !.zIndex = newZ]
       ELSE [prev[i] EXCEPT !.isFocused = FALSE]]

\* variant: the other windows are not defocused
focusKeepsOthers(prev, id, newZ) ==
  [i \in 1..Len(prev) |->
     IF prev[i].id = id
       THEN [prev[i] EXCEPT !.isFocused = TRUE, !.zIndex = newZ]
       ELSE prev[i]]

focusWindowUpdater(prev, id, newZ) ==
  [i \in 1..Len(prev) |->
     IF prev[i].id = id
       THEN [prev[i] EXCEPT !.isFocused = TRUE, !.zIndex = newZ]
       ELSE [prev[i] EXCEPT !.isFocused = FALSE]]

updateWindowPositionUpdater(prev, id, x, y) ==
  [i \in 1..Len(prev) |->
     IF prev[i].id = id
       THEN [prev[i] EXCEPT !.x = x, !.y = y]
       ELSE prev[i]]

\* variant: a non-positive size is rejected
updateSizeRejectsNonPositive(prev, id, width, height) ==
  [i \in 1..Len(prev) |->
     IF prev[i].id = id /\ width > 0 /\ height > 0
       THEN [prev[i] EXCEPT !.width = width, !.height = height]
       ELSE prev[i]]

updateWindowSizeUpdater(prev, id, width, height) ==
  [i \in 1..Len(prev) |->
     IF prev[i].id = id
       THEN [prev[i] EXCEPT !.width = width, !.height = height]
       ELSE prev[i]]

\* variant: the increment is lost
nextZStale(currentZ) == currentZ

\* const newZ = currentZ + 1
nextZ(currentZ) == currentZ + 1

(* -------------------- telemetry-sink calls per operation --------------- *)

openWindowTelemetry(prev, window) ==
  IF Has(prev, window.id)
    THEN IF Find(prev, window.id).isMinimized
           THEN <<Ev("logger.info", "Window restored from minimized state",
                     window.id, 0),
                  Ev("metrics.increment", "window.restore", window.id, 1)>>
           ELSE <<Ev("logger.debug", "Window focused (already open)",
                     window.id, 0)>>
    ELSE <<Ev("logger.info", "New window opened", window.id, 0),
           Ev("metrics.increment", "window.open", window.id, 1),
           Ev("metrics.gauge", "window.active_count", "", Len(prev) + 1)>>

\* variant: the gauge is given the count before the removal
closeTelemetryStaleCount(prev, id) ==
  IF Has(prev, id)
    THEN <<Ev("logger.info", "Window closed", id, 0),
           Ev("metrics.increment", "window.close", id, 1),
           Ev("metrics.gauge", "window.active_count", "", Len(prev))>>
    ELSE <<>>

closeWindowTelemetry(prev, id) ==
  IF Has(prev, id)
    THEN <<Ev("logger.info", "Window closed", id, 0),
           Ev("metrics.increment", "window.close", id, 1),
           Ev("metrics.gauge", "window.active_count", "", Len(prev) - 1)>>
    ELSE <<>>

minimizeWindowTelemetry(prev, id) ==
  IF Has(prev, id)
    THEN <<Ev("logger.info", "Window minimized", id, 0),
           Ev("metrics.increment", "window.minimize", id, 1)>>
    ELSE <<>>

maximizeWindowTelemetry(prev, id) ==
  IF Has(prev, id)
    THEN IF Find(prev, id).isMaximized
           THEN <<Ev("logger.info", "Window restored", id, 0),
                  Ev("metrics.increment", "window.restore", id, 1)>>
           ELSE <<Ev("logger.info", "Window maximized", id, 0),
                  Ev("metrics.increment", "window.maximize", id, 1)>>
    ELSE <<>>

updateWindowPositionTelemetry(prev, id) ==
  IF Has(prev, id)
    THEN <<Ev("logger.debug", "Window position updated", id, 0),
           Ev("metrics.increment", "window.position_update", id, 1)>>
    ELSE <<>>

updateWindowSizeTelemetry(prev, id, width, height) ==
  IF Has(prev, id)
    THEN <<Ev("logger.debug", "Window size updated", id, 0),
           Ev("metrics.increment", "window.resize", id, 1),
           Ev("metrics.gauge", "window.size", id, width * height)>>
    ELSE <<>>

(* ------------------------------ operations ----------------------------- *)

NoWindow == [id |-> ""]

Call(op, id, window, a, b) ==
  [op |-> op, id |-> id, window |-> window, a |-> a, b |-> b]

\* the operations whose handler is setTopZIndex(currentZ => ...)
isBump(c) == c.op \in {"openWindow", "restoreWindow", "focusWindow"}

\* the setWindows updater of call c, newZ being the value its counter
\* updater computed (unused by the five operations without one)
applyCall(c, prev, newZ) ==
  CASE c.op = "openWindow" -> openWindowUpdater(prev, c.window, newZ)
    [] c.op = "closeWindow" -> closeWindowUpdater(prev, c.id)
    [] c.op = "minimizeWindow" -> minimizeWindowUpdater(prev, c.id)
    [] c.op = "maximizeWindow" -> maximizeWindowUpdater(prev, c.id)
    [] c.op = "restoreWindow" -> restoreWindowUpdater(prev, c.id, newZ)
    [] c.op = "focusWindow" -> focusWindowUpdater(prev, c.id, newZ)
    [] c.op = "updateWindowPosition" ->
         updateWindowPositionUpdater(prev, c.id, c.a, c.b)
    [] c.op = "updateWindowSize" ->
         updateWindowSizeUpdater(prev, c.id, c.a, c.b)

\* the telemetry-sink calls that updater makes
callTelemetry(c, prev) ==
  CASE c.op = "openWindow" -> openWindowTelemetry(prev, c.window)
    [] c.op = "closeWindow" -> closeWindowTelemetry(prev, c.id)
    [] c.op = "minimizeWindow" -> minimizeWindowTelemetry(prev, c.id)
    [] c.op = "maximizeWindow" -> maximizeWindowTelemetry(prev, c.id)
    [] c.op = "restoreWindow" -> <<>>
    [] c.op = "focusWindow" -> <<>>
    [] c.op = "updateWindowPosition" -> updateWindowPositionTelemetry(prev, c.id)
    [] c.op = "updateWindowSize" ->
         updateWindowSizeTelemetry(prev, c.id, c.a, c.b)

\* no pending update, no work scheduled on the provider
IdleQueue == [windows |-> <<>>, topZIndex |-> <<>>, lanes |-> FALSE]

NoRef == [windows |-> <<>>, topZIndex |-> 0, calls |-> 0]

NoChat == [phase |-> "none"]

Init ==
  /\ windows = <<>>
  /\ topZIndex = BaseZ
  /\ last = Call("init", "", NoWindow, 0, 0)
  /\ telemetry = <<>>
  /\ sink = "ok"
  /\ thrown = FALSE
  /\ queue = IdleQueue
  /\ inOrder = NoRef
  /\ chat = NoChat

\* The updater makes at least one sink call and the sink throws: the calls
\* are not wrapped in try/catch, so the exception leaves the updater.
Raises(evs) == sink = "throws" /\ evs # <<>>

\* An updater raised while React was computing the next state: the render is
\* abandoned and nothing of the operation is committed; the provider either
\* keeps its last committed state or is remounted by an error boundary.
updaterThrows ==
  /\ thrown' = TRUE
  /\ telemetry' = <<>>
  /\ \/ UNCHANGED <<windows, topZIndex>>
     \/ windows' = <<>> /\ topZIndex' = BaseZ

openWindow(window) ==
  /\ topZIndex < BaseZ + MaxBumps
  /\ last' = Call("openWindow", window.id, window, 0, 0)
  /\ IF Raises(openWindowTelemetry(windows, window))
       THEN updaterThrows
       ELSE /\ windows' = openWindowUpdater(windows, window, nextZ(topZIndex))
            /\ topZIndex' = nextZ(topZIndex)
            /\ telemetry' = openWindowTelemetry(windows, window)
            /\ thrown' = FALSE
  /\ UNCHANGED <<sink, reactVars, chat>>

closeWindow(id) ==
  /\ last' = Call("closeWindow", id, NoWindow, 0, 0)
  /\ IF Raises(closeWindowTelemetry(windows, id))
       THEN updaterThrows
       ELSE /\ windows' = closeWindowUpdater(windows, id)
            /\ telemetry' = closeWindowTelemetry(windows, id)
            /\ thrown' = FALSE
            /\ UNCHANGED topZIndex
  /\ UNCHANGED <<sink, reactVars, chat>>

minimizeWindow(id) ==
  /\ last' = Call("minimizeWindow", id, NoWindow, 0, 0)
  /\ IF Raises(minimizeWindowTelemetry(windows, id))
       THEN updaterThrows
       ELSE /\ windows' = minimizeWindowUpdater(windows, id)
            /\ telemetry' = minimizeWindowTelemetry(windows, id)
            /\ thrown' = FALSE
            /\ UNCHANGED topZIndex
  /\ UNCHANGED <<sink, reactVars, chat>>

maximizeWindow(id) ==
  /\ last' = Call("maximizeWindow", id, NoWindow, 0, 0)
  /\ IF Raises(maximizeWindowTelemetry(windows, id))
       THEN updaterThrows
       ELSE /\ windows' = maximizeWindowUpdater(windows, id)
            /\ telemetry' = maximizeWindowTelemetry(windows, id)
            /\ thrown' = FALSE
            /\ UNCHANGED topZIndex
  /\ UNCHANGED <<sink, reactVars, chat>>

restoreWindow(id) ==
  /\ topZIndex < BaseZ + MaxBumps
  /\ windows' = restoreWindowUpdater(windows, id, nextZ(topZIndex))
  /\ topZIndex' = nextZ(topZIndex)
  /\ telemetry' = <<>>
  /\ thrown' = FALSE
  /\ last' = Call("restoreWindow", id, NoWindow, 0, 0)
  /\ UNCHANGED <<sink, reactVars, chat>>

focusWindow(id) ==
  /\ topZIndex < BaseZ + MaxBumps
  /\ windows' = focusWindowUpdater(windows, id, nextZ(topZIndex))
  /\ topZIndex' = nextZ(topZIndex)
  /\ telemetry' = <<>>
  /\ thrown' = FALSE
  /\ last' = Call("focusWindow", id, NoWindow, 0, 0)
  /\ UNCHANGED <<sink, reactVars, chat>>

updateWindowPosition(id, x, y) ==
  /\ last' = Call("updateWindowPosition", id, NoWindow, x, y)
  /\ IF Raises(updateWindowPositionTelemetry(windows, id))
       THEN updaterThrows
       ELSE /\ windows' = updateWindowPositionUpdater(windows, id, x, y)
            /\ telemetry' = updateWindowPositionTelemetry(windows, id)
            /\ thrown' = FALSE
            /\ UNCHANGED topZIndex
  /\ UNCHANGED <<sink, reactVars, chat>>

updateWindowSize(id, width, height) ==
  /\ last' = Call("updateWindowSize", id, NoWindow, width, height)
  /\ IF Raises(updateWindowSizeTelemetry(windows, id, width, height))
       THEN updaterThrows
       ELSE /\ windows' = updateWindowSizeUpdater(windows, id, width, height)
            /\ telemetry' = updateWindowSizeTelemetry(windows, id, width, height)
            /\ thrown' = FALSE
            /\ UNCHANGED topZIndex
  /\ UNCHANGED <<sink, reactVars, chat>>

Next ==
  \/ \E window \in WindowInits : openWindow(window)
  \/ \E id \in Ids : closeWindow(id)
  \/ \E id \in Ids : minimizeWindow(id)
  \/ \E id \in Ids : maximizeWindow(id)
  \/ \E id \in Ids : restoreWindow(id)
  \/ \E id \in Ids : focusWindow(id)
  \/ \E id \in Ids, p \in PosArgs : updateWindowPosition(id, p[1], p[2])
  \/ \E id \in Ids, s \in SizeArgs : updateWindowSize(id, s[1], s[2])

\* Calls applied one at a time, with a working telemetry sink.
Spec == Init /\ [][Next]_vars

(* ---------------- the same operations with a failing sink -------------- *)

\* The telemetry sink becomes unavailable: from now on its calls throw.
sinkFails ==
  /\ sink = "ok"
  /\ sink' = "throws"
  /\ UNCHANGED <<windows, topZIndex, last, telemetry, thrown, reactVars, chat>>

NextSink ==
  \/ \E window \in WindowInits : openWindow(window)
  \/ \E id \in Ids : closeWindow(id)
  \/ \E id \in Ids : minimizeWindow(id)
  \/ \E id \in Ids : maximizeWindow(id)
  \/ \E id \in Ids : restoreWindow(id)
  \/ \E id \in Ids : focusWindow(id)
  \/ \E id \in Ids, p \in PosArgs : updateWindowPosition(id, p[1], p[2])
  \/ \E id \in Ids, s \in SizeArgs : updateWindowSize(id, s[1], s[2])
  \/ sinkFails

SpecSink == Init /\ [][NextSink]_vars

(* ------------- the operations under React's batched dispatch ----------- *)

\* Number of operation calls explored under batched dispatch.
MaxCalls == 3

\* The calls issued under batched dispatch: every operation, on every id.
BatchCalls ==
  {Call("openWindow", w.id, w, 0, 0) :
     w \in {v \in WindowInits :
              v.title = "Notes" /\ ~v.isMinimized /\ ~v.isMaximized}}
    \cup {Call(op, id, NoWindow, 0, 0) :
            op \in {"closeWindow", "minimizeWindow", "maximizeWindow",
                    "restoreWindow", "focusWindow"},
            id \in Ids}
    \cup {Call("updateWindowPosition", id, NoWindow, 10, 20) : id \in Ids}
    \cup {Call("updateWindowSize", id, NoWindow, 0, -5) : id \in Ids}

\* A queued update: the call whose updater it is, whether React computed it
\* eagerly at dispatch, and the z value it carries (windows updates of the
\* three counter operations; the eager result of a counter update).
Update(c, eager, z) == [call |-> c, eager |-> eager, z |-> z]

\* The windows hook works through its queue, in order, from state ws.
RECURSIVE runWindows(_, _)
runWindows(us, ws) ==
  IF us = <<>>
    THEN [ws |-> ws, evs |-> <<>>]
    ELSE LET u == Head(us)
             rest == runWindows(Tail(us), applyCall(u.call, ws, u.z))
         IN  [ws |-> rest.ws,
              evs |-> (IF u.eager THEN <<>> ELSE callTelemetry(u.call, ws))
                        \o rest.evs]

\* The topZIndex hook works through its queue from z: each updater that was
\* not computed at dispatch runs now, and its nested setWindows call is a
\* render-phase update of the provider.
RECURSIVE runTopZIndex(_, _)
runTopZIndex(us, z) ==
  IF us = <<>>
    THEN [z |-> z, nested |-> <<>>]
    ELSE LET u == Head(us)
             newZ == IF u.eager THEN u.z ELSE nextZ(z)
             rest == runTopZIndex(Tail(us), newZ)
         IN  [z |-> rest.z,
              nested |-> (IF u.eager THEN <<>> ELSE <<Update(u.call, FALSE, newZ)>>)
                           \o rest.nested]

InitBatch ==
  /\ windows = <<>>
  /\ topZIndex = BaseZ
  /\ last = Call("init", "", NoWindow, 0, 0)
  /\ telemetry = <<>>
  /\ sink = "ok"
  /\ thrown = FALSE
  /\ queue = IdleQueue
  /\ inOrder = [windows |-> <<>>, topZIndex |-> BaseZ, calls |-> 0]
  /\ chat = NoChat

\* closeWindow, minimizeWindow, maximizeWindow, updateWindowPosition,
\* updateWindowSize: the handler calls setWindows(updater).  With no work
\* pending on the provider React computes the updater at once; otherwise the
\* updater waits in the hook's queue for the next render.
dispatchSetWindows(c) ==
  /\ ~isBump(c)
  /\ inOrder.calls < MaxCalls
  /\ queue' = [queue EXCEPT !.windows = Append(@, Update(c, ~queue.lanes, 0)),
                            !.lanes = TRUE]
  /\ telemetry' = IF queue.lanes THEN <<>> ELSE callTelemetry(c, windows)
  /\ last' = c
  /\ inOrder' = [windows |-> applyCall(c, inOrder.windows, 0),
                 topZIndex |-> inOrder.topZIndex,
                 calls |-> inOrder.calls + 1]
  /\ UNCHANGED <<windows, topZIndex, sink, thrown, chat>>

\* openWindow, restoreWindow, focusWindow: the handler calls
\* setTopZIndex(updater), and only the updater calls setWindows.  With no work
\* pending the updater runs at once and its setWindows call is queued now;
\* otherwise the updater itself waits for the next render.
dispatchSetTopZIndex(c) ==
  /\ isBump(c)
  /\ inOrder.calls < MaxCalls
  /\ queue' =
       IF queue.lanes
         THEN [queue EXCEPT !.topZIndex = Append(@, Update(c, FALSE, 0))]
         ELSE [windows |-> Append(queue.windows,
                                  Update(c, TRUE, nextZ(topZIndex))),
               topZIndex |-> Append(queue.topZIndex,
                                    Update(c, TRUE, nextZ(topZIndex))),
               lanes |-> TRUE]
  /\ telemetry' = IF queue.lanes THEN <<>> ELSE callTelemetry(c, windows)
  /\ last' = c
  /\ inOrder' = [windows |-> applyCall(c, inOrder.windows,
                                       nextZ(inOrder.topZIndex)),
                 topZIndex |-> nextZ(inOrder.topZIndex),
                 calls |-> inOrder.calls + 1]
  /\ UNCHANGED <<windows, topZIndex, sink, thrown, chat>>

\* React renders the provider: the windows hook (declared first) processes
\* its queue, then the topZIndex hook; the setWindows calls made by counter
\* updaters during this render are applied in an immediate second pass.  The
\* lanes left on the fiber's alternate decide whether the next dispatch is
\* computed eagerly, so either value may remain.
render ==
  /\ queue.windows # <<>> \/ queue.topZIndex # <<>>
  /\ LET first == runWindows(queue.windows, windows)
         counter == runTopZIndex(queue.topZIndex, topZIndex)
         second == runWindows(counter.nested, first.ws)
     IN  /\ windows' = second.ws
         /\ topZIndex' = counter.z
         /\ telemetry' = first.evs \o second.evs
  /\ queue' \in {[IdleQueue EXCEPT !.lanes = l] : l \in BOOLEAN}
  /\ UNCHANGED <<last, inOrder, sink, thrown, chat>>

NextBatch ==
  \/ \E c \in BatchCalls : dispatchSetWindows(c)
  \/ \E c \in BatchCalls : dispatchSetTopZIndex(c)
  \/ render

SpecBatch == InitBatch /\ [][NextBatch]_vars

(* ------------- the operations when updaters are invoked twice ---------- *)

\* React's StrictMode invokes every updater function twice to expose side
\* effects; the setWindows call inside the setTopZIndex updater is one.

\* The calls issued when updaters are invoked twice: as BatchCalls, with
\* openWindow also given a WindowInit whose isMinimized is true.
TwiceCalls ==
  {Call("openWindow", w.id, w, 0, 0) :
     w \in {v \in WindowInits : v.title = "Notes" /\ ~v.isMaximized}}
    \cup {Call(op, id, NoWindow, 0, 0) :
            op \in {"closeWindow", "minimizeWindow", "maximizeWindow",
                    "restoreWindow", "focusWindow"},
            id \in Ids}
    \cup {Call("updateWindowPosition", id, NoWindow, 10, 20) : id \in Ids}
    \cup {Call("updateWindowSize", id, NoWindow, 0, -5) : id \in Ids}

\* The topZIndex hook works through its queue from z as under StrictMode:
\* before it takes an update's result (the one computed at dispatch, or the
\* updater's return value) it invokes the updater once more on the same
\* counter value and discards what that returns.  Every invocation calls
\* setWindows with the same newZ, as a render-phase update of the provider.
RECURSIVE runTopZIndexTwice(_, _)
runTopZIndexTwice(us, z) ==
  IF us = <<>>
    THEN [z |-> z, nested |-> <<>>]
    ELSE LET u == Head(us)
             newZ == IF u.eager THEN u.z ELSE nextZ(z)
             rest == runTopZIndexTwice(Tail(us), newZ)
         IN  [z |-> rest.z,
              nested |-> <<Update(u.call, FALSE, nextZ(z))>>
                           \o (IF u.eager THEN <<>>
                                          ELSE <<Update(u.call, FALSE, newZ)>>)
                           \o rest.nested]

\* render, with the counter updaters invoked twice.  (The second invocation
\* of a setWindows updater only repeats its telemetry-sink calls; its return
\* value is discarded and it queues nothing.)
renderTwice ==
  /\ queue.windows # <<>> \/ queue.topZIndex # <<>>
  /\ LET first == runWindows(queue.windows, windows)
         counter == runTopZIndexTwice(queue.topZIndex, topZIndex)
         second == runWindows(counter.nested, first.ws)
     IN  /\ windows' = second.ws
         /\ topZIndex' = counter.z
         /\ telemetry' = first.evs \o second.evs
  /\ queue' \in {[IdleQueue EXCEPT !.lanes = l] : l \in BOOLEAN}
  /\ UNCHANGED <<last, inOrder, sink, thrown, chat>>

NextTwice ==
  \/ \E c \in TwiceCalls : dispatchSetWindows(c)
  \/ \E c \in TwiceCalls : dispatchSetTopZIndex(c)
  \/ renderTwice

SpecTwice == InitBatch /\ [][NextTwice]_vars

(* ------------------ the chat endpoint: prompt construction ------------- *)

\* Longest message list of a request.
MaxMessages == 3

Roles == {"user", "assistant"}

Contents == {"hi", "yo"}

\* interface MessageInput
MessageInput == [role : Roles, content : Contents]

MessageLists == UNION {[1..n -> MessageInput] : n \in 0..MaxMessages}

\* request.json(): a body with a messages array, or one without
Bodies ==
  {[isArray |-> TRUE, messages |-> ms] : ms \in MessageLists}
    \cup {[isArray |-> FALSE, messages |-> <<>>]}

\* messages.filter(m => m.role === 'user')
userMessages(messages) == SelectSeq(messages, LAMBDA m : m.role = "user")

\* .pop() of that list (only used when it is not empty)
lastUserMessage(messages) ==
  userMessages(messages)[Len(userMessages(messages))]

\* `${m.role === 'user' ? 'User' : 'Assistant'}: ${m.content}`
contextLine(m) ==
  [label |-> IF m.role = "user" THEN "User" ELSE "Assistant",
   content |-> m.content]

\* messages.slice(0, -1).map(...).join('\n\n'), as the list of joined lines;
\* the joined string is empty exactly when the list is
conversationContext(messages) ==
  [i \in 1..(IF Len(messages) = 0 THEN 0 ELSE Len(messages) - 1) |->
     contextLine(messages[i])]

\* fullPrompt: the system prompt, the 'Previous conversation' section when
\* the context is not empty, and the 'User:' line
fullPrompt(messages) ==
  [system |-> "SYSTEM_PROMPT",
   hasContext |-> conversationContext(messages) # <<>>,
   context |-> conversationContext(messages),
   user |-> lastUserMessage(messages).content]

NoPrompt == [system |-> ""]

InitChat ==
  /\ windows = <<>>
  /\ topZIndex = BaseZ
  /\ last = Call("init", "", NoWindow, 0, 0)
  /\ telemetry = <<>>
  /\ sink = "ok"
  /\ thrown = FALSE
  /\ queue = IdleQueue
  /\ inOrder = NoRef
  /\ chat \in {[phase |-> "request", body |-> b, status |-> 0, error |-> "",
                prompt |-> NoPrompt] : b \in Bodies}

\* POST up to the creation of the response stream
POST ==
  /\ chat.phase = "request"
  /\ IF ~chat.body.isArray
       THEN /\ chat' = [chat EXCEPT !.phase = "responded", !.status = 400,
                                    !.error = "Messages array is required"]
            /\ telemetry' = <<Ev("incrementMetric", "chat.request", "", 1),
                              Ev("logger.warn", "Invalid chat request", "", 0),
                              Ev("incrementMetric", "chat.error", "", 1)>>
       ELSE IF userMessages(chat.body.messages) = <<>>
         THEN /\ chat' = [chat EXCEPT !.phase = "responded", !.status = 400,
                                      !.error = "No user message found"]
              /\ telemetry' =
                   <<Ev("incrementMetric", "chat.request", "", 1),
                     Ev("logger.warn", "No user message in chat request", "",
                        Len(chat.body.messages)),
                     Ev("incrementMetric", "chat.error", "", 1)>>
         ELSE /\ chat' = [chat EXCEPT !.phase = "streaming", !.status = 200,
                                      !.prompt = fullPrompt(chat.body.messages)]
              /\ telemetry' =
                   <<Ev("incrementMetric", "chat.request", "", 1),
                     Ev("logger.info", "Processing chat request", "",
                        Len(chat.body.messages)),
                     Ev("gaugeMetric", "chat.conversation_depth", "",
                        Len(chat.body.messages))>>
  /\ UNCHANGED <<windows, topZIndex, last, sink, thrown, reactVars>>

NextChat == POST

SpecChat == InitChat /\ [][NextChat]_vars

(* ------------------ the chat endpoint: the response stream ------------- *)

\* Number of messages the agent yields before its iteration ends or throws.
MaxAgentMessages == 3

\* content blocks of an assistant message
BlockLists == {<<>>, <<"text">>, <<"tool_use">>, <<"tool_use", "text", "tool_use">>}

\* The messages query() yields, by the fields the loop body reads:
\* message.type, event.delta.type / message.subtype, message.message.content.
AgentMessages ==
  {[type |-> "stream_event", sub |-> d, blocks |-> <<>>] :
     d \in {"text_delta", "input_json_delta"}}
    \cup {[type |-> "assistant", sub |-> "", blocks |-> bs] : bs \in BlockLists}
    \cup {[type |-> "tool_progress", sub |-> "", blocks |-> <<>>]}
    \cup {[type |-> "result", sub |-> r, blocks |-> <<>>] :
            r \in {"success", "error_max_turns"}}
    \cup {[type |-> "system", sub |-> "init", blocks |-> <<>>]}

\* `data: ${JSON.stringify({ type, ... })}\n\n`
JsonFrame(type, message) == [data |-> "json", type |-> type, message |-> message]

\* 'data: [DONE]\n\n'
DoneSentinel == [data |-> "[DONE]", type |-> "", message |-> ""]

\* { type: 'error', message: 'Stream error occurred' }
StreamErrorFrame == JsonFrame("error", "Stream error occurred")

\* the controller of a new ReadableStream: nothing enqueued, not closed
NewController == [frames |-> <<>>, closes |-> 0, late |-> 0]

\* controller.enqueue(chunk); on a closed controller the call throws and
\* enqueues nothing: the model counts such calls in late
enqueue(c, f) ==
  IF c.closes > 0
    THEN [c EXCEPT !.late = @ + 1]
    ELSE [c EXCEPT !.frames = Append(@, f)]

RECURSIVE enqueueAll(_, _)
enqueueAll(c, fs) ==
  IF fs = <<>> THEN c ELSE enqueueAll(enqueue(c, Head(fs)), Tail(fs))

\* controller.close()
close(c) == [c EXCEPT !.closes = @ + 1]

\* the tool_use blocks of an assistant message
toolUses(m) == SelectSeq(m.blocks, LAMBDA b : b = "tool_use")

\* the frames the loop body enqueues for one message, in order
framesOf(m) ==
  (IF m.type = "stream_event" /\ m.sub = "text_delta"
     THEN <<JsonFrame("text_delta", "")>> ELSE <<>>)
    \o (IF m.type = "assistant"
          THEN [k \in 1..Len(toolUses(m)) |-> JsonFrame("tool_start", "")]
          ELSE <<>>)
    \o (IF m.type = "tool_progress"
          THEN <<JsonFrame("tool_progress", "")>> ELSE <<>>)
    \o (IF m.type = "result" /\ m.sub = "success"
          THEN <<JsonFrame("done", "")>> ELSE <<>>)
    \o (IF m.type = "result" /\ m.sub # "success"
          THEN <<JsonFrame("error", "Query did not complete successfully")>>
          ELSE <<>>)

\* the telemetry-sink calls of the loop body for one message
messageTelemetry(m, toolUseCount, textChunkCount) ==
  (IF m.type = "assistant"
     THEN [k \in 1..(2 * Len(toolUses(m))) |->
             IF k % 2 = 1 THEN Ev("logger.debug", "Tool invoked", "", 0)
                          ELSE Ev("incrementMetric", "chat.tool_use", "", 1)]
     ELSE <<>>)
    \o (IF m.type = "result" /\ m.sub = "success"
          THEN <<Ev("logger.info", "Chat request completed successfully", "", 0),
                 Ev("distributionMetric", "chat.response_time", "success", 0),
                 Ev("gaugeMetric", "chat.tool_use_count", "", toolUseCount),
                 Ev("gaugeMetric", "chat.text_chunks", "", textChunkCount)>>
          ELSE <<>>)
    \o (IF m.type = "result" /\ m.sub # "success"
          THEN <<Ev("logger.error", "Chat query did not complete successfully",
                    "", 0),
                 Ev("incrementMetric", "chat.error", "query_failed", 1),
                 Ev("distributionMetric", "chat.response_time", "error", 0)>>
          ELSE <<>>)

\* Requests explored with the response stream: no messages array, an empty
\* one, or a single message.
StreamBodies == {b \in Bodies : Len(b.messages) <= 1}

InitStream ==
  /\ windows = <<>>
  /\ topZIndex = BaseZ
  /\ last = Call("init", "", NoWindow, 0, 0)
  /\ telemetry = <<>>
  /\ sink = "ok"
  /\ thrown = FALSE
  /\ queue = IdleQueue
  /\ inOrder = NoRef
  /\ chat \in {[phase |-> "request", body |-> b, status |-> 0, error |-> "",
                prompt |-> NoPrompt] : b \in StreamBodies}

\* new ReadableStream({ start }): start runs up to its first await
start ==
  /\ chat.phase = "streaming"
  /\ chat' = [phase |-> "iterating", body |-> chat.body, status |-> chat.status,
              error |-> chat.error, prompt |-> chat.prompt,
              controller |-> NewController, consumed |-> <<>>,
              toolUseCount |-> 0, textChunkCount |-> 0, threw |-> FALSE]
  /\ telemetry' = <<Ev("logger.debug", "Starting Claude Agent SDK query", "", 10)>>
  /\ UNCHANGED <<windows, topZIndex, last, sink, thrown, reactVars>>

\* one pass of the for await body, for the message the agent yielded
onMessage(m) ==
  /\ chat.phase = "iterating"
  /\ Len(chat.consumed) < MaxAgentMessages
  /\ LET tools == chat.toolUseCount + Len(toolUses(m))
         chunks == chat.textChunkCount +
                     (IF m.type = "stream_event" /\ m.sub = "text_delta"
                        THEN 1 ELSE 0)
     IN  /\ chat' = [chat EXCEPT
                       !.controller = enqueueAll(@, framesOf(m)),
                       !.consumed = Append(@, m),
                       !.toolUseCount = tools,
                       !.textChunkCount = chunks]
         /\ telemetry' = messageTelemetry(m, tools, chunks)
  /\ UNCHANGED <<windows, topZIndex, last, sink, thrown, reactVars>>

\* after the loop: enqueue('data: [DONE]\n\n'); close()
afterLoop(c) == close(enqueue(c, DoneSentinel))

\* variant: the catch block enqueues the error frame and does not close
catchBlockLeavesOpen(c) == enqueue(c, StreamErrorFrame)

\* the catch block: enqueue the 'Stream error occurred' frame; close()
catchBlock(c) == close(enqueue(c, StreamErrorFrame))

\* the agent's iterator reports the end of the messages
iterationEnds ==
  /\ chat.phase = "iterating"
  /\ chat' = [chat EXCEPT !.phase = "ended",
                          !.controller = afterLoop(@)]
  /\ telemetry' = <<>>
  /\ UNCHANGED <<windows, topZIndex, last, sink, thrown, reactVars>>

\* the agent's iterator throws instead of yielding the next message
iterationThrows ==
  /\ chat.phase = "iterating"
  /\ chat' = [chat EXCEPT !.phase = "ended", !.threw = TRUE,
                          !.controller = catchBlock(@)]
  /\ telemetry' = <<Ev("logger.error", "Stream error occurred", "", 0),
                    Ev("incrementMetric", "chat.error", "stream_error", 1),
                    Ev("distributionMetric", "chat.response_time",
                       "stream_error", 0)>>
  /\ UNCHANGED <<windows, topZIndex, last, sink, thrown, reactVars>>

NextStream ==
  \/ POST
  \/ start
  \/ \E m \in AgentMessages : onMessage(m)
  \/ iterationEnds
  \/ iterationThrows

SpecStream == InitStream /\ [][NextStream]_vars

(* ----------------------- vocabulary of the properties ------------------ *)

Idx(ws) == 1..Len(ws)

IdSet(ws) == {ws[i].id : i \in Idx(ws)}

Focused(ws) == {i \in Idx(ws) : ws[i].isFocused}

BumpOps == {"openWindow", "restoreWindow", "focusWindow"}

\* the descriptive fields the engine only stores
SameContent(v, w) ==
  /\ v.id = w.id
  /\ v.title = w.title
  /\ v.x = w.x
  /\ v.y = w.y
  /\ v.width = w.width
  /\ v.height = w.height

(* ------------------------------- C1 ------------------------------------ *)

\* C1 (focus exclusivity): after every step of every sequence of the eight
\* operations, at most one window of the collection has isFocused = TRUE.
C1_FocusExclusivity == Cardinality(Focused(windows)) <= 1

\* A focus call on a present id, with two windows open, leaves one focused.
C1_Witness ==
  /\ last.op = "focusWindow"
  /\ Len(windows) = 2
  /\ Has(windows, last.id)
  /\ Cardinality(Focused(windows)) = 1

(* ------------------------------- C2 ------------------------------------ *)

\* C2 (minimized/focus exclusion): in every reachable state every window
\* with isMinimized = TRUE has isFocused = FALSE.
C2_MinimizedNotFocused ==
  \A i \in Idx(windows) : windows[i].isMinimized => ~windows[i].isFocused

(* ------------------------------- C3 ------------------------------------ *)

\* C3 (initial state on creation): openWindow with an id that is not in the
\* collection inserts a window that is focused, not minimized and not
\* maximized, whatever WindowInit value is passed.
C3_InitialStateOnCreation ==
  [][(last'.op = "openWindow" /\ ~Has(windows, last'.id)) =>
       /\ Has(windows', last'.id)
       /\ Find(windows', last'.id).isFocused
       /\ ~Find(windows', last'.id).isMinimized
       /\ ~Find(windows', last'.id).isMaximized]_vars

(* ------------------------------- C4 ------------------------------------ *)

\* C4 (z-order monotonicity): the counter starts at 100, every openWindow,
\* restoreWindow and focusWindow call raises it by exactly 1, no operation
\* lowers it, and the first open on the empty initial state yields exactly
\* one window, focused, with zIndex 101.
C4_ZOrderMonotonic ==
  /\ topZIndex = 100
  /\ [][/\ topZIndex' >= topZIndex
        /\ last'.op \in BumpOps => topZIndex' = topZIndex + 1
        /\ (last'.op = "openWindow" /\ windows = <<>> /\ topZIndex = 100) =>
             /\ Len(windows') = 1
             /\ windows'[1].id = last'.id
             /\ windows'[1].isFocused
             /\ windows'[1].zIndex = 101]_vars

\* Scenario A: the first open on the empty state has acted.
C4_Witness ==
  /\ last.op = "openWindow"
  /\ Len(windows) = 1
  /\ windows[1].zIndex = 101
  /\ topZIndex = 101

(* ------------------------------- C5 ------------------------------------ *)

\* C5 (recency ordering): the counter is always >= every window's zIndex,
\* and right after openWindow, restoreWindow or focusWindow on an id that is
\* then present, that window's zIndex is the new counter value and strictly
\* above the zIndex of every other window.
C5_RecencyOrdering ==
  /\ [](\A i \in Idx(windows) : topZIndex >= windows[i].zIndex)
  /\ [][(last'.op \in BumpOps /\ Has(windows', last'.id)) =>
          \A i \in Idx(windows') :
            IF windows'[i].id = last'.id
              THEN windows'[i].zIndex = topZIndex'
              ELSE windows'[i].zIndex < topZIndex']_vars

\* Scenario B: a, then b, then a again: a is reopened and is on top.
C5_Witness ==
  /\ last.op = "openWindow"
  /\ Len(windows) = 2
  /\ windows[1].id = last.id
  /\ windows[1].isFocused /\ ~windows[2].isFocused
  /\ windows[1].zIndex = topZIndex
  /\ windows[1].zIndex > windows[2].zIndex

(* ------------------------------- C6 ------------------------------------ *)

\* C6 (membership): ids are unique in the collection; openWindow on a present
\* id keeps the size; the collection grows, by exactly one, only through
\* openWindow with a new id and shrinks, by exactly one, only through
\* closeWindow with a present id; every other operation keeps the id set.
C6_Membership ==
  /\ [](\A i, j \in Idx(windows) : windows[i].id = windows[j].id => i = j)
  /\ [][/\ (last'.op = "openWindow" /\ Has(windows, last'.id)) =>
             /\ Len(windows') = Len(windows)
             /\ IdSet(windows') = IdSet(windows)
        /\ (last'.op = "openWindow" /\ ~Has(windows, last'.id)) =>
             /\ Len(windows') = Len(windows) + 1
             /\ IdSet(windows') = IdSet(windows) \cup {last'.id}
        /\ (last'.op = "closeWindow" /\ Has(windows, last'.id)) =>
             /\ Len(windows') = Len(windows) - 1
             /\ IdSet(windows') = IdSet(windows) \ {last'.id}
        /\ Len(windows') > Len(windows) =>
             last'.op = "openWindow" /\ ~Has(windows, last'.id)
        /\ Len(windows') < Len(windows) =>
             last'.op = "closeWindow" /\ Has(windows, last'.id)
        /\ last'.op \notin {"openWindow", "closeWindow"} =>
             /\ Len(windows') = Len(windows)
             /\ IdSet(windows') = IdSet(windows)]_vars

\* openWindow has acted on an id that was already present (it is not the
\* last element, where a new window would have been appended).
C6_Witness ==
  /\ last.op = "openWindow"
  /\ Len(windows) = 2
  /\ windows[1].id = last.id
  /\ windows[2].id # last.id

(* ------------------------------- C7 ------------------------------------ *)

\* C7: openWindow on a present id overwrites none of the stored title, x, y,
\* width, height, isMaximized with the argument's values: on the target only
\* isFocused, zIndex and isMinimized may change, on the others only isFocused.
C7_OpenExistingKeepsFields ==
  [][(last'.op = "openWindow" /\ Has(windows, last'.id)) =>
       /\ Len(windows') = Len(windows)
       /\ \A i \in Idx(windows) :
            /\ SameContent(windows'[i], windows[i])
            /\ windows'[i].isMaximized = windows[i].isMaximized
            /\ windows[i].id # last'.id =>
                 /\ windows'[i].zIndex = windows[i].zIndex
                 /\ windows'[i].isMinimized = windows[i].isMinimized]_vars

\* A second open whose argument differs from the stored record in title,
\* position, size and isMaximized has acted; the stored values are still there.
C7_Witness ==
  /\ last.op = "openWindow"
  /\ Len(windows) = 2
  /\ windows[1].id = last.id
  /\ windows[1].title # last.window.title
  /\ windows[1].x # last.window.x
  /\ windows[1].y # last.window.y
  /\ windows[1].width # last.window.width
  /\ windows[1].height # last.window.height
  /\ windows[1].isMaximized # last.window.isMaximized

(* ------------------------------- C8 ------------------------------------ *)

\* C8 (entry-point equivalence): openWindow on a present id yields the same
\* collection and counter as restoreWindow(id) when the window is minimized
\* and as focusWindow(id) when it is not; in Scenario C the window ends not
\* minimized, focused and with a strictly larger zIndex.
C8_EntryPointEquivalence ==
  [][(last'.op = "openWindow" /\ Has(windows, last'.id)) =>
       /\ topZIndex' = nextZ(topZIndex)
       /\ Find(windows, last'.id).isMinimized =>
            /\ windows' = restoreWindowUpdater(windows, last'.id, nextZ(topZIndex))
            /\ ~Find(windows', last'.id).isMinimized
            /\ Find(windows', last'.id).isFocused
            /\ Find(windows', last'.id).zIndex > Find(windows, last'.id).zIndex
       /\ ~Find(windows, last'.id).isMinimized =>
            windows' = focusWindowUpdater(windows, last'.id, nextZ(topZIndex))]_vars

\* Scenario C: open a, minimize a, open a: the restore branch has acted.
C8_Witness ==
  /\ last.op = "openWindow"
  /\ Len(windows) = 1
  /\ Len(telemetry) > 0
  /\ telemetry[1].name = "Window restored from minimized state"
  /\ ~windows[1].isMinimized
  /\ windows[1].isFocused

(* ------------------------------- C9 ------------------------------------ *)

\* C9: focusWindow(id) and restoreWindow(id) with an id that is not in the
\* collection leave every window record unchanged, the isFocused flag of the
\* focused window included.
C9_AbsentIdNoOp ==
  [][(last'.op \in {"focusWindow", "restoreWindow"} /\ ~Has(windows, last'.id)) =>
       windows' = windows]_vars

(* ------------------------------- C10 ----------------------------------- *)

\* C10: closeWindow(id) removes exactly the window with that id and leaves
\* every other record and the counter unchanged (no other window is promoted
\* to focused); on an absent id, or repeated right after itself, it leaves
\* the collection and the counter unchanged.
C10_CloseRemovesExactly ==
  [][last'.op = "closeWindow" =>
       /\ topZIndex' = topZIndex
       /\ ~Has(windows', last'.id)
       /\ ~Has(windows, last'.id) => windows' = windows
       /\ Has(windows, last'.id) =>
            \E k \in Idx(windows) :
              /\ windows[k].id = last'.id
              /\ windows' = SubSeq(windows, 1, k - 1)
                              \o SubSeq(windows, k + 1, Len(windows))
       /\ (last.op = "closeWindow" /\ last.id = last'.id) => windows' = windows]_vars

\* Scenario D shape: two windows were open, one was closed (the close
\* recorded its telemetry), and the one left is still unfocused.
C10_Witness ==
  /\ last.op = "closeWindow"
  /\ Len(telemetry) > 0
  /\ Len(windows) = 1
  /\ topZIndex = 102
  /\ windows[1].zIndex = 101
  /\ ~windows[1].isFocused
  /\ ~windows[1].isMinimized

(* ------------------------------- C11 ----------------------------------- *)

\* C11: minimizeWindow(id) on a present window sets only that window's
\* isMinimized to TRUE and isFocused to FALSE, changes no other window and
\* not the counter; on an absent id or an already-minimized window the
\* collection and the counter are unchanged.
C11_MinimizeFrame ==
  [][last'.op = "minimizeWindow" =>
       /\ topZIndex' = topZIndex
       /\ Len(windows') = Len(windows)
       /\ \A i \in Idx(windows) :
            IF windows[i].id = last'.id /\ ~windows[i].isMinimized
              THEN windows'[i] = [windows[i] EXCEPT !.isMinimized = TRUE,
                                                    !.isFocused = FALSE]
              ELSE windows'[i] = windows[i]]_vars

(* ------------------------------- C12 ----------------------------------- *)

\* C12: maximizeWindow(id) on a present window inverts only that window's
\* isMaximized (no zIndex, isFocused, isMinimized, other window or the
\* counter changes); applying it twice gives back the collection it started
\* from; on an absent id nothing changes.
C12_MaximizeInvolution ==
  /\ [](\A id \in Ids :
          maximizeWindowUpdater(maximizeWindowUpdater(windows, id), id) = windows)
  /\ [][last'.op = "maximizeWindow" =>
          /\ topZIndex' = topZIndex
          /\ Len(windows') = Len(windows)
          /\ \A i \in Idx(windows) :
               IF windows[i].id = last'.id
                 THEN windows'[i] =
                        [windows[i] EXCEPT !.isMaximized = ~windows[i].isMaximized]
                 ELSE windows'[i] = windows[i]
          /\ (last.op = "maximizeWindow" /\ last.id = last'.id
                /\ Has(windows, last'.id)) =>
               Find(windows', last'.id).isMaximized
                 = (telemetry[1].name = "Window restored")]_vars

\* Scenario E: open a, maximize a, maximize a: the second call found the
\* window maximized and put isMaximized back to FALSE; zIndex is still 101.
C12_Witness ==
  /\ last.op = "maximizeWindow"
  /\ Len(windows) = 1
  /\ windows[1].id = last.id
  /\ Len(telemetry) > 0
  /\ telemetry[1].name = "Window restored"
  /\ ~windows[1].isMaximized
  /\ windows[1].zIndex = 101
  /\ topZIndex = 101

(* ------------------------------- C13 ----------------------------------- *)

\* C13: focusWindow(id) on a present window changes only the target's
\* isFocused and zIndex and the isFocused flag of the others: isMinimized,
\* isMaximized, title, position and size of every window are kept, also when
\* the target is minimized.
C13_FocusFrame ==
  [][(last'.op = "focusWindow" /\ Has(windows, last'.id)) =>
       /\ Len(windows') = Len(windows)
       /\ \A i \in Idx(windows) :
            /\ SameContent(windows'[i], windows[i])
            /\ windows'[i].isMinimized = windows[i].isMinimized
            /\ windows'[i].isMaximized = windows[i].isMaximized
            /\ windows[i].id # last'.id =>
                 windows'[i].zIndex = windows[i].zIndex]_vars

\* focusWindow has acted on a minimized window: it is still minimized.
C13_Witness ==
  /\ last.op = "focusWindow"
  /\ Len(windows) = 2
  /\ Has(windows, last.id)
  /\ Find(windows, last.id).isMinimized
  /\ Find(windows, last.id).isFocused
  /\ Find(windows, last.id).zIndex = topZIndex

(* ------------------------------- C14 ----------------------------------- *)

\* C14: updateWindowPosition(id, x, y) changes only x and y, and
\* updateWindowSize(id, w, h) only width and height, of the matching window,
\* for every value passed, non-positive sizes included; flags, zIndex, other
\* windows and the counter are unchanged; with an absent id nothing changes.
C14_UpdateFrame ==
  [][/\ last'.op = "updateWindowPosition" =>
          /\ topZIndex' = topZIndex
          /\ Len(windows') = Len(windows)
          /\ \A i \in Idx(windows) :
               IF windows[i].id = last'.id
                 THEN windows'[i] =
                        [windows[i] EXCEPT !.x = last'.a, !.y = last'.b]
                 ELSE windows'[i] = windows[i]
     /\ last'.op = "updateWindowSize" =>
          /\ topZIndex' = topZIndex
          /\ Len(windows') = Len(windows)
          /\ \A i \in Idx(windows) :
               IF windows[i].id = last'.id
                 THEN windows'[i] =
                        [windows[i] EXCEPT !.width = last'.a, !.height = last'.b]
                 ELSE windows'[i] = windows[i]]_vars

\* updateWindowSize has stored a non-positive size on a moved window.
C14_Witness ==
  /\ last.op = "updateWindowSize"
  /\ last.a <= 0 /\ last.b < 0
  /\ Len(windows) = 2
  /\ Has(windows, last.id)
  /\ Find(windows, last.id).width = last.a
  /\ Find(windows, last.id).height = last.b
  /\ Find(windows, last.id).x = 10
  /\ Find(windows, last.id).y = 20

(* ------------------------------- C17 ----------------------------------- *)

\* C17: every operation that changes the window collection or the counter
\* records at least one telemetry event for that transition.
C17_EveryChangeRecorded ==
  [][(windows' # windows \/ topZIndex' # topZIndex) => telemetry' # <<>>]_vars

(* ------------------------------- C18 ----------------------------------- *)

ActiveCountValues(evs) ==
  {evs[k].value : k \in {n \in 1..Len(evs) : evs[n].name = "window.active_count"}}

\* C18: window.active_count is recorded by every openWindow that inserts a
\* window and every closeWindow that removes one; every recorded value is the
\* number of windows right after that operation's update.
C18_ActiveCountGauge ==
  [][/\ (last'.op = "openWindow" /\ ~Has(windows, last'.id)) =>
          ActiveCountValues(telemetry') = {Len(windows')}
     /\ (last'.op = "closeWindow" /\ Has(windows, last'.id)) =>
          ActiveCountValues(telemetry') = {Len(windows')}
     /\ ActiveCountValues(telemetry') \subseteq {Len(windows')}]_vars

\* closeWindow has removed one of two windows and recorded the gauge as 1.
C18_Witness ==
  /\ last.op = "closeWindow"
  /\ Len(windows) = 1
  /\ ActiveCountValues(telemetry) = {1}

(* ------------------------------- C20 ----------------------------------- *)

\* C20 (zIndex distinctness): with operations applied one at a time, no two
\* windows of the collection share a zIndex, and a value once assigned is
\* never assigned again to another window, also after a close: every zIndex
\* an operation writes is the new counter value, which is strictly above the
\* old counter, and the counter bounds every value written before.
C20_ZIndexDistinct ==
  /\ [](\A i, j \in Idx(windows) :
          windows[i].zIndex = windows[j].zIndex => i = j)
  /\ [](\A i \in Idx(windows) : windows[i].zIndex <= topZIndex)
  /\ [][/\ topZIndex' >= topZIndex
        /\ \A i \in Idx(windows') :
             \/ \E j \in Idx(windows) :
                  /\ windows[j].id = windows'[i].id
                  /\ windows[j].zIndex = windows'[i].zIndex
             \/ /\ windows'[i].zIndex = topZIndex'
                /\ topZIndex' > topZIndex]_vars

\* Two windows were given zIndex values, one of them twice, and the other
\* was then closed (open a, open b, focus a, close b): the survivor holds
\* 103, the latest value, and the closed window's value was never reused.
C20_Witness ==
  /\ last.op = "closeWindow"
  /\ Len(telemetry) > 0
  /\ telemetry[1].name = "Window closed"
  /\ Len(windows) = 1
  /\ windows[1].zIndex = 103
  /\ topZIndex = 103

(* ------------------------------- C15 ----------------------------------- *)

\* C15 (telemetry isolation): when a telemetry-sink call throws during an
\* operation, the exception does not leave the operation and the collection
\* and the counter are updated exactly as with a working sink.
C15_TelemetryIsolation ==
  [][sink' = sink =>
       /\ ~thrown'
       /\ windows' = applyCall(last', windows, nextZ(topZIndex))
       /\ topZIndex' = IF isBump(last') THEN nextZ(topZIndex) ELSE topZIndex]_vars

(* ------------------------------- C16 ----------------------------------- *)

\* C16 (atomic, in-order application): for every sequence of calls issued
\* before the queued updaters run, once they have run the collection and the
\* counter are those obtained by applying the calls one at a time in call
\* order.
C16_AtomicInOrder ==
  (queue.windows = <<>> /\ queue.topZIndex = <<>>) =>
    /\ windows = inOrder.windows
    /\ topZIndex = inOrder.topZIndex

(* ------------------------------- C19 ----------------------------------- *)

\* the index of the last message with role 'user'
LastUserIndex(ms) ==
  CHOOSE k \in 1..Len(ms) :
    /\ ms[k].role = "user"
    /\ \A j \in (k + 1)..Len(ms) : ms[j].role # "user"

\* ms without its k-th element
RemoveAt(ms, k) == SubSeq(ms, 1, k - 1) \o SubSeq(ms, k + 1, Len(ms))

\* C19: for every non-empty message list with a user message, the message
\* passed as the prompt is left out of the 'Previous conversation' context
\* and every other message is in it exactly once, in order, also when the
\* last message of the list has role 'assistant'.
C19_ContextExcludesPrompt ==
  (chat.phase = "streaming") =>
    LET ms == chat.body.messages
        others == RemoveAt(ms, LastUserIndex(ms))
    IN  /\ chat.prompt.user = ms[LastUserIndex(ms)].content
        /\ chat.prompt.context = [i \in 1..Len(others) |-> contextLine(others[i])]
        /\ chat.prompt.hasContext = (others # <<>>)

(* ------------------------------- C21 ----------------------------------- *)

\* the collection a render leaves when every counter updater is invoked once
renderedOnce ==
  runWindows(runTopZIndex(queue.topZIndex, topZIndex).nested,
             runWindows(queue.windows, windows).ws).ws

\* C21 (double-invocation safety): when the counter updaters of openWindow,
\* restoreWindow and focusWindow are invoked twice from the same counter
\* value, so that each nested collection update is enqueued twice with the
\* same new z value, the collection after the render equals the one obtained
\* when each is enqueued once.
C21_DoubleInvocationSafe ==
  [][(queue.topZIndex # <<>> /\ queue'.topZIndex = <<>>) =>
       windows' = renderedOnce]_vars

(* ------------------------------- C22 ----------------------------------- *)

\* the response stream exists
HasStream == chat.phase \in {"iterating", "ended"}

\* the { type: 'done' } frames among fs
doneFrames(fs) == SelectSeq(fs, LAMBDA f : f.data = "json" /\ f.type = "done")

\* the result messages with subtype 'success' among ms
successResults(ms) ==
  SelectSeq(ms, LAMBDA m : m.type = "result" /\ m.sub = "success")

\* C22 (chat stream termination): for every sequence of agent messages, also
\* one that ends in an exception, the stream is never closed twice and is
\* closed exactly once when start() has returned; no enqueue is attempted on
\* the closed controller and its frames no longer change; the last frame is
\* 'data: [DONE]' when the iteration ended without an exception and the
\* 'Stream error occurred' error frame otherwise; and a { type: 'done' }
\* frame is enqueued only while handling a result message with subtype
\* 'success', one per such message.
C22_StreamTermination ==
  /\ [](HasStream =>
          /\ chat.controller.closes <= 1
          /\ chat.controller.late = 0
          /\ chat.phase = "ended" <=> chat.controller.closes = 1
          /\ chat.phase = "ended" =>
               chat.controller.frames[Len(chat.controller.frames)] =
                 (IF chat.threw THEN StreamErrorFrame ELSE DoneSentinel)
          /\ Len(doneFrames(chat.controller.frames)) =
               Len(successResults(chat.consumed)))
  /\ [][HasStream =>
          /\ chat.controller.closes > 0 =>
               chat'.controller.frames = chat.controller.frames
          /\ Len(doneFrames(chat'.controller.frames)) >
               Len(doneFrames(chat.controller.frames)) =>
               /\ Len(chat'.consumed) = Len(chat.consumed) + 1
               /\ chat'.consumed[Len(chat'.consumed)].type = "result"
               /\ chat'.consumed[Len(chat'.consumed)].sub = "success"]_vars

\* The agent reported success, yielded another message and then threw: the
\* stream holds one done frame, ends with the error frame and is closed once.
C22_Witness ==
  /\ chat.phase = "ended"
  /\ chat.threw
  /\ Len(chat.consumed) = 2
  /\ chat.consumed[1].type = "result" /\ chat.consumed[1].sub = "success"
  /\ Len(doneFrames(chat.controller.frames)) = 1
  /\ chat.controller.frames[Len(chat.controller.frames)] = StreamErrorFrame
  /\ chat.controller.closes = 1

====
